---- MODULE Spec2Model ----
(***************************************************************************)
(* Slot orchestrator of the investment-opportunity radar: the slot_run     *)
(* registry, ingestion, classification with escalating retry, the          *)
(* notification gate and the daily digest, executed by concurrent workers  *)
(* against one database.                                                   *)
(*                                                                         *)
(* A database table is a sequence of rows (slot_run, notification_log,     *)
(* daily_report: the position is the autoincrement id) or a function from  *)
(* the unique key to a sequence holding at most one row (content_item,     *)
(* analysis_result, settings: <<>> is "no row").                           *)
(* SHA-1 in the idempotency key is taken to be collision free: the key is  *)
(* the tuple of the formatted components.                                  *)
(* All behaviours stay within one calendar date, Today.                    *)
(***************************************************************************)
EXTENDS Integers, Sequences, FiniteSets, TLC

\* ---------------------------------------------------------------- bounds
NumArticles == 1
MaxTriggers == 2
MaxTicks == 1
MaxFeedLen == 3
MaxPrompts == 3
MaxListed == 9901
\* The minutes of WeRSSClient's clock and the tokens the feed issues.
MaxNow == 9
MaxTokens == 4

\* ------------------------------------------------------ program constants
WorkerConcurrency == 2
MaxRetries == 3
DailyQuota == 4
DefaultThreshold == 60
StaleMinutes == 30
WindowDays == 3
PageLimit == 100
MaxOffset == 10000

\* One step of the clock: long enough for a running run to become stale.
TickMinutes == StaleMinutes + 1

\* slot_run.status
RunRunning == 0
RunSuccess == 1
RunFailed == 2
\* content_item.analyzed_status
ItemPending == 0
ItemDone == 2
ItemFailed == 3
\* notification_log.status
NotifySuccess == 1
NotifyFailed == 2

Today == "2026-01-10"

\* A slot label "HH:MM" is the sequence of its characters, digits as
\* themselves and ':' as 10 (it sorts after every digit), so that sorted()
\* on strings is the lexicographic order on these sequences.
Slot0700 == <<0, 7, 10, 0, 0>>
Slot1200 == <<1, 2, 10, 0, 0>>
Slot1400 == <<1, 4, 10, 0, 0>>
Slot1800 == <<1, 8, 10, 0, 0>>
Slot2200 == <<2, 2, 10, 0, 0>>
Slot2300 == <<2, 3, 10, 0, 0>>

default_slots == <<Slot0700, Slot1200, Slot1400, Slot1800, Slot2200>>

\* The slots a trigger can carry in the model.
TriggerSlots == {Slot1200, Slot2200}
\* The values an administrator stores under schedule_slots in the model.
SlotLists == {<<Slot0700, Slot1200>>, <<Slot1200, Slot2300, Slot2200>>}
\* The thresholds an administrator stores under push_score_threshold.
Thresholds == {80}

Workers == 1..WorkerConcurrency
\* External ids the upstream feed can list: enough to exceed the daily quota.
Articles == 1..(DailyQuota + 1)

Range(s) == {s[i] : i \in DOMAIN s}

RECURSIVE LexLess(_, _)
\* Python's str < str on the character sequences.
LexLess(a, b) ==
    IF b = <<>> THEN FALSE
    ELSE IF a = <<>> THEN TRUE
    ELSE IF Head(a) # Head(b) THEN Head(a) < Head(b)
    ELSE LexLess(Tail(a), Tail(b))

\* slots[-1]: the last of the list as it is stored.
UnsortedLast(slots) == slots[Len(slots)]

\* sorted(slots)[-1]
SortedLast(slots) ==
    CHOOSE s \in Range(slots) : \A t \in Range(slots) : t = s \/ LexLess(t, s)

VARIABLES
    clock,              \* minutes since the start of the behaviour
    settings,           \* settings table: key -> <<>> or <<value_json>>
    slot_run,           \* slot_run table
    content_item,       \* content_item table by external_id
    analysis_result,    \* analysis_result table by content_item_id
    opportunity,        \* opportunity table, in insertion order
    daily_report,       \* daily_report rows, in insertion order
    notification_log,   \* notification_log table
    prompt_version,     \* prompt_version table: <<row>>, or <<>> once deleted
    feed,               \* the upstream feed's article list, in the order it lists them
    werss,              \* the WeRSSClient: its token, and the HTTP calls of its last _request
    wk,                 \* each worker's position and local variables
    triggers            \* triggers accepted so far

vars == <<clock, settings, slot_run, content_item, analysis_result, opportunity,
          daily_report, notification_log, prompt_version, feed, werss, wk, triggers>>

db == <<settings, slot_run, content_item, analysis_result, opportunity,
        daily_report,
        notification_log, prompt_version>>

\* get_setting_value(session, key, default)
get_setting_value(key, default) ==
    IF settings[key] # <<>> THEN settings[key][1] ELSE default

\* A worker's locals in execute_slot. The status attribute of its SlotRun
\* object is 0 from the commit of "running" on, so the later assignments of 1
\* and 2 always reach the row. daily_sends counts the digest send attempts of
\* the current execution, digest_calls its calls of generate_daily_digest and
\* report the daily_report row its lookup found (0: none); rejected says
\* that the last manual request handled in this place was answered with an
\* error and skipped that the last execution returned the skipped result; attempts and requests are the responses and the user prompts of
\* the provider calls made for the current item; prompt_version is the id of
\* the PromptVersion the run read (0: None), articles_failed is
\* stats["articles_failed"] and flushed holds the rows the session's open
\* transaction has inserted or holds for insertion, which its next commit
\* writes.
IdleWorker ==
    [pc |-> "idle", slot |-> <<>>, manual |-> FALSE, rejected |-> FALSE,
     skipped |-> FALSE,
     run |-> 0,
     is_new |-> FALSE, new_items |-> {}, pending_items |-> <<>>,
     result_json |-> <<>>, calls |-> 0, attempts |-> <<>>, requests |-> <<>>,
     list_calls |-> 0, detail_calls |-> <<>>,
     is_last_slot |-> FALSE, pushed_count |-> 0, needs_rollback |-> FALSE,
     analyses |-> {}, total_articles |-> 0, total_opportunities |-> 0,
     digest_calls |-> 0, digest_md |-> "", has_opportunity |-> FALSE,
     report |-> 0, daily_sends |-> 0,
     prompt_version |-> 0, articles_failed |-> 0, flushed |-> <<>>]

InitDb ==
    /\ clock = 0
    /\ werss = [token |-> <<>>, expires_at |-> <<>>, issued |-> 0,
                calls |-> <<>>, raised |-> FALSE]
    /\ settings = [push_score_threshold |-> <<>>, schedule_slots |-> <<>>,
                   window_days |-> <<>>]
    /\ slot_run = <<>>
    /\ content_item = [a \in Articles |-> <<>>]
    /\ analysis_result = [a \in Articles |-> <<>>]
    /\ opportunity = <<>>
    /\ daily_report = <<>>
    /\ notification_log = <<>>
    /\ prompt_version = <<>>
    /\ wk = [w \in Workers |-> IdleWorker]
    /\ triggers = 0

RECURSIVE Listing(_)
\* A feed that lists the articles S, newest first, all published within the
\* three days before the start of the behaviour (times are in minutes).
Listing(S) ==
    IF S = {} THEN <<>>
    ELSE LET a == CHOOSE x \in S : \A y \in S : x <= y
         IN <<[id |-> a, publish_time |-> 0 - a]>> \o Listing(S \ {a})

Init ==
    /\ InitDb
    /\ feed = Listing(1..NumArticles)

\* ------------------------------------------------------------ run registry

\* Ids of the slot_run rows of (Today, slot).
SlotRunIds(slot) == {i \in DOMAIN slot_run : slot_run[i].slot = slot}

\* query(SlotRun).filter(run_date, slot).first()
FirstSlotRun(slot) ==
    CHOOSE i \in SlotRunIds(slot) : \A j \in SlotRunIds(slot) : i <= j

\* The slot_run table without its unique constraint.
no_uq_slot_run_date_slot(slot) == TRUE

\* UniqueConstraint("run_date", "slot"): the insert of a row for slot is allowed.
uq_slot_run_date_slot(slot) == SlotRunIds(slot) = {}

\* The row get_or_create_slot_run adds: window of window_days ending now.
NewSlotRun(slot) ==
    [slot |-> slot,
     window_start_at |-> clock - get_setting_value("window_days", WindowDays) * 1440,
     window_end_at |-> clock, status |-> RunRunning,
     stats |-> "empty", started_at |-> clock, finished |-> FALSE,
     error |-> "none"]

\* run_slot(slot): the scheduler (or a redelivery) hands the slot to a worker.
run_slot(w, slot) ==
    /\ wk[w].pc = "idle"
    /\ triggers < MaxTriggers
    /\ triggers' = triggers + 1
    /\ wk' = [wk EXCEPT ![w] = [IdleWorker EXCEPT !.pc = "get_or_create",
                                                  !.slot = slot]]
    /\ UNCHANGED <<clock, db, feed, werss>>

\* Rows check_and_fix_stale_slots selects.
StaleIds ==
    {i \in DOMAIN slot_run : /\ slot_run[i].status = RunRunning
                             /\ slot_run[i].started_at < clock - StaleMinutes}

\* check_and_fix_stale_slots without the test of started_at.
FixRunning ==
    [i \in DOMAIN slot_run |->
        IF slot_run[i].status = RunRunning
        THEN [slot_run[i] EXCEPT !.status = RunFailed, !.error = "timeout",
                                 !.finished = TRUE]
        ELSE slot_run[i]]

\* The slot_run table after check_and_fix_stale_slots.
FixStale ==
    [i \in DOMAIN slot_run |->
        IF i \in StaleIds
        THEN [slot_run[i] EXCEPT !.status = RunFailed, !.error = "timeout",
                                 !.finished = TRUE]
        ELSE slot_run[i]]

\* check_and_fix_stale_slots as called by the progress endpoint.
check_and_fix_stale_slots ==
    /\ StaleIds # {}
    /\ slot_run' = FixStale
    /\ UNCHANGED <<clock, settings, content_item, analysis_result, opportunity, daily_report,
                   notification_log, feed, werss, prompt_version, wk, triggers>>

\* run_analysis_now without the test for a running run.
run_analysis_now_unguarded(w, slot) ==
    /\ wk[w].pc = "idle"
    /\ triggers < MaxTriggers
    /\ triggers' = triggers + 1
    /\ slot_run' = FixStale
    /\ wk' = [wk EXCEPT ![w] = [IdleWorker EXCEPT !.pc = "get_or_create",
                                                  !.slot = slot,
                                                  !.manual = TRUE]]
    /\ UNCHANGED <<clock, settings, content_item, analysis_result, opportunity, daily_report,
                   notification_log, feed, werss, prompt_version>>

\* run_analysis_now: reconcile, reject while a run is running, else start
\* execute_slot(slot, manual=True) in the background.
\* The background task runs beside the Celery workers; the model lets it take
\* the place of an idle worker.
run_analysis_now(w, slot) ==
    /\ wk[w].pc = "idle"
    /\ triggers < MaxTriggers
    /\ triggers' = triggers + 1
    /\ slot_run' = FixStale
    /\ IF \E i \in DOMAIN slot_run : FixStale[i].status = RunRunning
       THEN wk' = [wk EXCEPT ![w] = [IdleWorker EXCEPT !.rejected = TRUE]]
       ELSE wk' = [wk EXCEPT ![w] = [IdleWorker EXCEPT !.pc = "get_or_create",
                                                       !.slot = slot,
                                                       !.manual = TRUE]]
    /\ UNCHANGED <<clock, settings, content_item, analysis_result, opportunity, daily_report,
                   notification_log, feed, werss, prompt_version>>

\* get_or_create_slot_run without the lookup: it always goes on to the insert.
get_or_create_without_lookup(w) ==
    /\ wk[w].pc = "get_or_create"
    /\ wk' = [wk EXCEPT ![w].pc = "insert_slot_run"]
    /\ UNCHANGED <<clock, db, feed, werss, triggers>>

\* get_or_create_slot_run: the lookup. A row that exists is returned as it
\* is, with is_new False; with no row the function goes on to the insert.
get_or_create_slot_run(w) ==
    /\ wk[w].pc = "get_or_create"
    /\ IF SlotRunIds(wk[w].slot) # {}
       THEN wk' = [wk EXCEPT ![w].pc = "mark_running",
                             ![w].run = FirstSlotRun(wk[w].slot),
                             ![w].is_new = FALSE]
       ELSE wk' = [wk EXCEPT ![w].pc = "insert_slot_run"]
    /\ UNCHANGED <<clock, db, feed, werss, triggers>>

\* execute_slot that goes on with any row the lookup returned.
mark_running_again(w) ==
    /\ wk[w].pc = "mark_running"
    /\ wk' = [wk EXCEPT ![w].pc = "fetch"]
    /\ slot_run' = [slot_run EXCEPT ![wk[w].run] =
                      [@ EXCEPT !.status = RunRunning, !.started_at = clock]]
    /\ UNCHANGED <<clock, settings, content_item, analysis_result, opportunity,
                   daily_report, notification_log, feed, werss, prompt_version,
                   triggers>>

\* execute_slot, from the return of get_or_create_slot_run with an existing
\* row to the commit of "running": a run that succeeded is skipped (the
\* skipped result is returned), any other goes on with status = 0 and a new
\* started_at.
mark_running(w) ==
    /\ wk[w].pc = "mark_running"
    /\ IF slot_run[wk[w].run].status = RunSuccess
       THEN /\ wk' = [wk EXCEPT ![w] = [IdleWorker EXCEPT !.skipped = TRUE]]
            /\ slot_run' = slot_run
       ELSE /\ wk' = [wk EXCEPT ![w].pc = "fetch"]
            /\ slot_run' = [slot_run EXCEPT ![wk[w].run] =
                              [@ EXCEPT !.status = RunRunning,
                                        !.started_at = clock]]
    /\ UNCHANGED <<clock, settings, content_item, analysis_result, opportunity, daily_report,
                   notification_log, feed, werss, prompt_version, triggers>>

\* get_or_create_slot_run when the lookup found no row: the insert and its
\* commit, then the commit of "running". An IntegrityError is raised outside
\* execute_slot's inner try: the worker ends and nothing is written.
insert_slot_run(w) ==
    /\ wk[w].pc = "insert_slot_run"
    /\ IF uq_slot_run_date_slot(wk[w].slot)
       THEN /\ slot_run' = Append(slot_run, NewSlotRun(wk[w].slot))
            /\ wk' = [wk EXCEPT ![w].pc = "fetch",
                                ![w].run = Len(slot_run) + 1,
                                ![w].is_new = TRUE]
       ELSE /\ slot_run' = slot_run
            /\ wk' = [wk EXCEPT ![w] = IdleWorker]
    /\ UNCHANGED <<clock, settings, content_item, analysis_result, opportunity, daily_report,
                   notification_log, feed, werss, prompt_version, triggers>>

\* The analysis_result table as the worker's session sees it and as its
\* next commit leaves it: the committed rows and the rows its open
\* transaction inserted.
SessionAnalyses(w) ==
    [a \in DOMAIN analysis_result |->
        IF \E i \in DOMAIN wk[w].flushed : wk[w].flushed[i].item = a
        THEN LET i == CHOOSE i \in DOMAIN wk[w].flushed : wk[w].flushed[i].item = a
             IN <<wk[w].flushed[i].analysis>>
        ELSE analysis_result[a]]

RECURSIVE Flatten(_)
Flatten(lists) ==
    IF lists = <<>> THEN <<>> ELSE Head(lists) \o Flatten(Tail(lists))

\* The opportunity table after the session's next commit.
SessionOpportunities(w) ==
    opportunity \o Flatten([i \in DOMAIN wk[w].flushed |->
                               wk[w].flushed[i].opportunities])

\* The final status write of a run that completed.
finish(w) ==
    /\ wk[w].pc = "finish"
    /\ analysis_result' = SessionAnalyses(w)
    /\ opportunity' = SessionOpportunities(w)
    /\ slot_run' = [slot_run EXCEPT ![wk[w].run] =
                      [@ EXCEPT !.status = RunSuccess,
                                !.stats = "final", !.finished = TRUE]]
    /\ wk' = [wk EXCEPT ![w] = IdleWorker]
    /\ UNCHANGED <<clock, settings, content_item, daily_report,
                   notification_log, feed, werss, prompt_version, triggers>>

\* except Exception: status = 2, error, finished_at, commit, raise. With the
\* session's transaction rolled back by a failed flush the commit raises and
\* nothing is written.
run_failed(w) ==
    /\ wk[w].pc = "failed"
    /\ IF wk[w].needs_rollback
       THEN UNCHANGED <<slot_run, analysis_result, opportunity>>
       ELSE /\ analysis_result' = SessionAnalyses(w)
            /\ opportunity' = SessionOpportunities(w)
            /\ slot_run' = [slot_run EXCEPT ![wk[w].run] =
                           [@ EXCEPT !.status = RunFailed,
                                     !.error = "exception", !.finished = TRUE]]
    /\ wk' = [wk EXCEPT ![w] = IdleWorker]
    /\ UNCHANGED <<clock, settings, content_item, daily_report,
                   notification_log, feed, werss, prompt_version, triggers>>

\* The worker process dies: nothing uncommitted survives.
Crash(w) ==
    /\ wk[w].pc # "idle"
    /\ wk' = [wk EXCEPT ![w] = IdleWorker]
    /\ UNCHANGED <<clock, db, feed, werss, triggers>>

Tick ==
    /\ clock < MaxTicks * TickMinutes
    /\ clock' = clock + TickMinutes
    /\ UNCHANGED <<db, feed, werss, wk, triggers>>

\* update_settings: the administrator stores a value under a key.
update_settings(key, value) ==
    /\ settings[key] # <<value>>
    /\ settings' = [settings EXCEPT ![key] = <<value>>]
    /\ UNCHANGED <<clock, slot_run, content_item, analysis_result, opportunity, daily_report,
                   notification_log, feed, werss, prompt_version, wk, triggers>>

\* ------------------------------------------------------------------ prompts

\* PromptVersion.name
PromptNames == {"opportunity_analyzer", "daily_digest"}

\* The ids of the prompt_version rows of a name.
PromptIds(name) ==
    {i \in DOMAIN prompt_version :
        prompt_version[i] # <<>> /\ prompt_version[i][1].name = name}

\* The bulk update that sets is_active to False on the active rows of a name.
Deactivated(name) ==
    [i \in DOMAIN prompt_version |->
        IF i \in PromptIds(name) /\ prompt_version[i][1].is_active
        THEN <<[prompt_version[i][1] EXCEPT !.is_active = FALSE]>>
        ELSE prompt_version[i]]

\* create_prompt: a new version of the name, one above its highest version,
\* is added active and the name's active rows are deactivated.
create_prompt(name) ==
    /\ Len(prompt_version) < MaxPrompts
    /\ LET versions == {prompt_version[i][1].version : i \in PromptIds(name)}
           new_version ==
               IF versions # {}
               THEN (CHOOSE v \in versions : \A u \in versions : u <= v) + 1
               ELSE 1
       IN prompt_version' =
             Append(Deactivated(name),
                    <<[name |-> name, version |-> new_version,
                       is_active |-> TRUE]>>)
    /\ UNCHANGED <<clock, settings, slot_run, content_item, analysis_result, opportunity,
                   daily_report, notification_log, feed, werss, wk, triggers>>

\* activate_prompt that leaves the name's other rows as they are.
activate_prompt_only(prompt_id) ==
    /\ prompt_id \in DOMAIN prompt_version
    /\ prompt_version[prompt_id] # <<>>
    /\ prompt_version' =
          [prompt_version EXCEPT ![prompt_id] = <<[@[1] EXCEPT !.is_active = TRUE]>>]
    /\ UNCHANGED <<clock, settings, slot_run, content_item, analysis_result, opportunity,
                   daily_report, notification_log, feed, werss, wk, triggers>>

\* activate_prompt: 404 without the row; else the name's active rows are
\* deactivated and the row is activated.
activate_prompt(prompt_id) ==
    /\ prompt_id \in DOMAIN prompt_version
    /\ prompt_version[prompt_id] # <<>>
    /\ prompt_version' =
          [Deactivated(prompt_version[prompt_id][1].name) EXCEPT
              ![prompt_id] = <<[@[1] EXCEPT !.is_active = TRUE]>>]
    /\ UNCHANGED <<clock, settings, slot_run, content_item, analysis_result, opportunity,
                   daily_report, notification_log, feed, werss, wk, triggers>>

\* delete_prompt: 404 without the row, 400 for an active row; else the row
\* is deleted.
delete_prompt(prompt_id) ==
    /\ prompt_id \in DOMAIN prompt_version
    /\ prompt_version[prompt_id] # <<>>
    /\ prompt_version' =
          IF prompt_version[prompt_id][1].is_active THEN prompt_version
          ELSE [prompt_version EXCEPT ![prompt_id] = <<>>]
    /\ UNCHANGED <<clock, settings, slot_run, content_item, analysis_result, opportunity,
                   daily_report, notification_log, feed, werss, wk, triggers>>

\* -------------------------------------------------------------- feed client

\* Minutes before the expiry from which _is_token_valid says expired.
ExpiryMargin == 5

\* expires_in of a token response, in minutes.
ExpiresIn == {3, 8}

\* _is_token_valid without the margin before the expiry.
is_token_unexpired(c) ==
    /\ c.token # <<>>
    /\ c.expires_at # <<>>
    /\ clock < c.expires_at[1]

\* WeRSSClient._is_token_valid
is_token_valid(c) ==
    /\ c.token # <<>>
    /\ c.expires_at # <<>>
    /\ clock < c.expires_at[1] - ExpiryMargin

\* An HTTP call of the client: what was called, the token it carried and how
\* the feed answered.
Call(call, token, status) == [call |-> call, token |-> token, status |-> status]

\* _login and _refresh_token: the POST, raise_for_status, then the token and
\* its expiry are replaced. status is the feed's answer, "ok" or "raise", and
\* expires_in the lifetime it grants.
TokenCall(c, call, status, expires_in) ==
    IF status = "ok"
    THEN [c |-> [c EXCEPT !.token = <<c.issued + 1>>,
                          !.expires_at = <<clock + expires_in>>,
                          !.issued = @ + 1,
                          !.calls = Append(@, Call(call, c.token, "ok"))],
          raised |-> FALSE]
    ELSE [c |-> [c EXCEPT !.calls = Append(@, Call(call, c.token, "raise"))],
          raised |-> TRUE]

\* WeRSSClient._get_token: the valid token, else a refresh when there is a
\* token, else (or when the refresh raised) a login.
get_token(c, refresh, login, expires_in) ==
    IF is_token_valid(c) THEN [c |-> c, raised |-> FALSE]
    ELSE IF c.token # <<>> /\ refresh = "raise"
    THEN TokenCall(TokenCall(c, "refresh", refresh, expires_in).c,
                   "login", login, expires_in)
    ELSE IF c.token # <<>> THEN TokenCall(c, "refresh", refresh, expires_in)
    ELSE TokenCall(c, "login", login, expires_in)

\* The request sent with the client's token.
Send(c, status) == [c EXCEPT !.calls = Append(@, Call("request", c.token, status))]

\* WeRSSClient._request. o holds the feed's answers: to the refresh, to the
\* logins before the first and the second send, the lifetime of the tokens
\* it grants, and the answers to the two sends ("timeout": the send raises).
request(o) ==
    /\ werss.issued + 2 <= MaxTokens
    /\ LET g1 == get_token([werss EXCEPT !.calls = <<>>], o.refresh, o.login1,
                           o.expires_in)
           s1 == Send(g1.c, o.status1)
           g2 == get_token([s1 EXCEPT !.token = <<>>], o.refresh, o.login2,
                           o.expires_in)
           s2 == Send(g2.c, o.status2)
       IN werss' =
             IF g1.raised THEN [g1.c EXCEPT !.raised = TRUE]
             ELSE IF o.status1 = "401"
             THEN IF g2.raised THEN [g2.c EXCEPT !.raised = TRUE]
                  ELSE [s2 EXCEPT !.raised = o.status2 # "200"]
             ELSE [s1 EXCEPT !.raised = o.status1 # "200"]
    /\ UNCHANGED <<clock, db, feed, wk, triggers>>

\* A minute passes on the client's clock.
Minute ==
    /\ clock < MaxNow
    /\ clock' = clock + 1
    /\ UNCHANGED <<db, feed, werss, wk, triggers>>

\* ---------------------------------------------------------------- ingestion

RECURSIVE Ascending(_)
\* The rows of a query as a list, in id order.
Ascending(S) ==
    IF S = {} THEN <<>>
    ELSE LET m == CHOOSE x \in S : \A y \in S : x <= y
         IN <<m>> \o Ascending(S \ {m})

\* Where the item loop goes once the current item is dealt with, and after
\* the loop: the daily report on the last slot, else the final status write
\* (a manual run first sends its summary through push_manual_summary, which
\* writes none of the tables modelled here).
AfterItem(rest, is_last_slot) ==
    IF rest # <<>> THEN "analyze"
    ELSE IF is_last_slot THEN "daily_report"
    ELSE "finish"

\* WeRSSClient.get_articles(limit, offset): one page of the list.
get_articles(limit, offset) ==
    SubSeq(feed, offset + 1,
           IF offset + limit < Len(feed) THEN offset + limit ELSE Len(feed))

\* The loop over one page without the window test: every article is kept.
ScanPageUnfiltered(articles, start_ts, end_ts) == articles

\* The loop over one page: an article inside [start_ts, end_ts] is kept, one
\* after end_ts is passed over, the first one before start_ts ends the loop.
ScanPage(articles, start_ts, end_ts) ==
    LET before == {i \in DOMAIN articles : articles[i].publish_time < start_ts}
        scanned == IF before = {} THEN articles
                   ELSE SubSeq(articles, 1,
                               (CHOOSE i \in before : \A j \in before : i <= j) - 1)
        in_range(article) == /\ start_ts <= article.publish_time
                             /\ article.publish_time <= end_ts
    IN SelectSeq(scanned, in_range)

\* The paging loop leaves at the request for this offset: the page is empty,
\* its last article is before start_ts, or the next offset exceeds MaxOffset.
Breaks(offset, start_ts) ==
    LET articles == get_articles(PageLimit, offset)
    IN \/ articles = <<>>
       \/ articles[Len(articles)].publish_time < start_ts
       \/ offset + PageLimit > MaxOffset

\* The offset of the last request of the paging loop, which starts at offset
\* 0 and adds PageLimit after every request it does not leave at.
LastOffset(start_ts) ==
    LET offsets == {p * PageLimit : p \in 0..(MaxOffset \div PageLimit)}
    IN CHOOSE offset \in offsets :
          /\ Breaks(offset, start_ts)
          /\ \A other \in offsets :
                other < offset => ~Breaks(other, start_ts)

\* The number of get_articles calls of the paging loop.
ListRequests(start_ts) == LastOffset(start_ts) \div PageLimit + 1

RECURSIVE Paging(_, _, _, _)
\* all_articles of the paging loop: what ScanPage keeps of the pages at the
\* offsets first..last, in order (joined by halves, which keeps the
\* evaluation shallow).
Paging(first, last, start_ts, end_ts) ==
    IF first = last
    THEN ScanPage(get_articles(PageLimit, first), start_ts, end_ts)
    ELSE LET half == ((last - first) \div PageLimit) \div 2
             middle == first + half * PageLimit
         IN Paging(first, middle, start_ts, end_ts)
               \o Paging(middle + PageLimit, last, start_ts, end_ts)

\* WeRSSClient.get_articles_by_time_range(start_time, end_time)
get_articles_by_time_range(start_time, end_time) ==
    Paging(0, LastOffset(start_time), start_time, end_time)

\* The loop of fetch_and_save_articles without the existence check.
NewArticlesUnchecked(articles, added, failed_details) ==
    [i \in DOMAIN articles |-> articles[i].id]

RECURSIVE NewArticles(_, _, _)
\* The loop of fetch_and_save_articles over the listed articles: the detail
\* fetches it makes, in list order. A fetch is made for an external id whose
\* lookup finds no row, neither a committed one nor one added earlier in this
\* loop (the lookup flushes the session first); an id whose fetch failed has
\* no row and is fetched again when it is listed again.
NewArticles(articles, added, failed_details) ==
    IF articles = <<>> THEN <<>>
    ELSE LET external_id == Head(articles).id
         IN IF content_item[external_id] # <<>> \/ external_id \in added
            THEN NewArticles(Tail(articles), added, failed_details)
            ELSE <<external_id>> \o
                 NewArticles(Tail(articles),
                             IF external_id \in failed_details THEN added
                             ELSE added \cup {external_id},
                             failed_details)

\* fetch_and_save_articles in which a failed detail fetch is not caught.
fetch_articles_aborting(w, listing_ok, failed_details) ==
    /\ wk[w].pc = "fetch"
    /\ LET articles ==
              get_articles_by_time_range(slot_run[wk[w].run].window_start_at,
                                         slot_run[wk[w].run].window_end_at)
           details == NewArticles(articles, {}, failed_details)
       IN IF listing_ok /\ Range(details) \cap failed_details = {}
          THEN wk' = [wk EXCEPT ![w].pc = "save_articles",
                                ![w].list_calls =
                                    ListRequests(slot_run[wk[w].run].window_start_at),
                                ![w].detail_calls = details,
                                ![w].new_items = Range(details)]
          ELSE wk' = [wk EXCEPT ![w].pc = "failed"]
    /\ UNCHANGED <<clock, db, feed, werss, triggers>>

\* fetch_and_save_articles up to the commit: the listing (which may raise),
\* then for every listed article the existence check and the detail fetch;
\* failed_details are the articles whose detail fetch fails in this pass, and
\* they are dropped.
fetch_articles(w, listing_ok, failed_details) ==
    /\ wk[w].pc = "fetch"
    /\ IF listing_ok
       THEN LET articles ==
                   get_articles_by_time_range(slot_run[wk[w].run].window_start_at,
                                              slot_run[wk[w].run].window_end_at)
                details == NewArticles(articles, {}, failed_details)
            IN wk' = [wk EXCEPT ![w].pc = "save_articles",
                                ![w].list_calls =
                                    ListRequests(slot_run[wk[w].run].window_start_at),
                                ![w].detail_calls = details,
                                ![w].new_items = Range(details) \ failed_details]
       ELSE wk' = [wk EXCEPT ![w].pc = "failed"]
    /\ UNCHANGED <<clock, db, feed, werss, triggers>>

\* content_item.external_id is unique: the commit of these new rows succeeds.
uq_content_item_external_id(new_items) ==
    \A a \in new_items : content_item[a] = <<>>

\* is_last_slot_of_day(session, current_slot)
is_last_slot_of_day(current_slot) ==
    LET slots == IF settings.schedule_slots # <<>>
                    /\ settings.schedule_slots[1] # <<>>
                 THEN settings.schedule_slots[1]
                 ELSE default_slots
    IN IF slots # <<>> THEN current_slot = SortedLast(slots) ELSE FALSE

\* get_active_prompt(session, name): the id of the first active row of the
\* name, 0 for None.
get_active_prompt(name) ==
    LET active == {i \in PromptIds(name) : prompt_version[i][1].is_active}
    IN IF active = {} THEN 0
       ELSE CHOOSE i \in active : \A j \in active : i <= j

\* fetch_and_save_articles, the commit (a failed commit rolls the session back
\* and raises into execute_slot's except), then the pending-item query, the
\* commit of the progress stats, get_active_prompt and is_last_slot_of_day.
save_articles(w) ==
    /\ wk[w].pc = "save_articles"
    /\ IF uq_content_item_external_id(wk[w].new_items)
       THEN LET saved == [a \in Articles |->
                            IF a \in wk[w].new_items THEN <<ItemPending>>
                            ELSE content_item[a]]
                pending == Ascending({a \in Articles : saved[a] = <<ItemPending>>})
                last == is_last_slot_of_day(wk[w].slot)
            IN /\ content_item' = saved
               /\ slot_run' = [slot_run EXCEPT ![wk[w].run].stats = "progress"]
               /\ wk' = [wk EXCEPT ![w].new_items = {},
                                   ![w].list_calls = 0, ![w].detail_calls = <<>>,
                                   ![w].pending_items = pending,
                                   ![w].prompt_version =
                                       get_active_prompt("opportunity_analyzer"),
                                   ![w].is_last_slot = last,
                                   ![w].pc = AfterItem(pending, last)]
       ELSE /\ UNCHANGED <<content_item, slot_run>>
            /\ wk' = [wk EXCEPT ![w].pc = "failed", ![w].new_items = {},
                                ![w].list_calls = 0, ![w].detail_calls = <<>>]
    /\ UNCHANGED <<clock, settings, analysis_result, opportunity, daily_report,
                   notification_log, feed, werss, prompt_version, triggers>>

\* ------------------------------------------------------------ classification

required_fields == {"score", "has_opportunity", "summary"}

\* A JSON document the provider returns: the mandatory keys it holds, the
\* values of score and has_opportunity (read only when the key is present)
\* and its opportunities list.
Doc(keys, score, has_opportunity) ==
    [keys |-> keys, score |-> score, has_opportunity |-> has_opportunity,
     opportunities |-> <<>>]

\* An entry of the opportunities list: a JSON object with a title, or a JSON
\* value that is no object (opp.get raises AttributeError).
Opp(title) == [object |-> TRUE, title |-> title]
NotAnObject == [object |-> FALSE, title |-> ""]

EmptyDoc == Doc({}, 0, FALSE)
Raises == [kind |-> "raise", doc |-> EmptyDoc]
Returns(doc) == [kind |-> "doc", doc |-> doc]

\* A complete document with a score above the default threshold and an
\* opportunity, one below it, and one without opportunity.
Eligible == Doc(required_fields, 75, TRUE)
LowScore == Doc(required_fields, 40, TRUE)
NoOpportunity == Doc(required_fields, 75, FALSE)
\* A document without summary.
NoSummary == Doc({"score", "has_opportunity"}, 75, TRUE)
\* Complete documents that list two opportunities, the second one of the
\* latter being no object.
TwoOpportunities ==
    [Eligible EXCEPT !.opportunities = <<Opp("a"), Opp("b")>>]
BrokenOpportunity ==
    [Eligible EXCEPT !.opportunities = <<Opp("a"), NotAnObject>>]

\* [f for f in required_fields if f not in result_json]
missing(doc) == required_fields \ doc.keys

\* The user prompt without reinforcement, whatever the attempt.
user_prompt(attempt) == "plain"

\* current_user_prompt of the attempt (counted from 0): the user prompt, with
\* the JSON-only instruction appended on attempt 1 and the fill-missing-fields
\* instruction on later attempts.
current_user_prompt(attempt) ==
    IF attempt = 1 THEN "json_only"
    ELSE IF attempt >= 2 THEN "fill_missing"
    ELSE "plain"

\* The retry loop without the break: every attempt is made and the last
\* response is the result.
AttemptsWithoutBreak(resps, k, result_json) ==
    [result_json |-> IF resps[MaxRetries].kind = "raise" THEN result_json
                     ELSE <<resps[MaxRetries].doc>>,
     calls |-> MaxRetries]

RECURSIVE Attempts(_, _, _)
\* The retry loop of analyze_article from attempt k on: result_json is
\* assigned by every call that returns, before the mandatory fields are
\* checked.
Attempts(resps, k, result_json) ==
    IF k > MaxRetries THEN [result_json |-> result_json, calls |-> MaxRetries]
    ELSE IF resps[k].kind = "raise" THEN Attempts(resps, k + 1, result_json)
    ELSE IF missing(resps[k].doc) # {}
         THEN Attempts(resps, k + 1, <<resps[k].doc>>)
    ELSE [result_json |-> <<resps[k].doc>>, calls |-> k]

\* Python truth value of result_json: None and {} are false.
Truthy(result_json) == result_json # <<>> /\ result_json[1].keys # {}

\* PromptVersion maps id, name, version, is_active, threshold, system_prompt,
\* user_template, response_schema and created_at: reading another attribute
\* of a row raises AttributeError.
PromptVersionAttributes ==
    {"id", "name", "version", "is_active", "threshold", "system_prompt",
     "user_template", "response_schema", "created_at"}

\* The system prompt analyze_article reads from prompt_version.prompt_text
\* (None: the built-in prompt; "AttributeError": the read raises).
system_prompt(prompt_id) ==
    IF prompt_id = 0 THEN "OPPORTUNITY_ANALYZER_SYSTEM_PROMPT"
    ELSE IF "prompt_text" \in PromptVersionAttributes THEN "prompt_text"
    ELSE "AttributeError"

\* The item loop up to the end of the retry loop of analyze_article. An item
\* without content (has_content false also after try_refresh_content) is
\* skipped and stays pending. An exception raised before the retry loop is
\* caught by the item handler, which counts the item as failed and goes on:
\* the item stays pending.
analyze(w, content, resps) ==
    /\ wk[w].pc = "analyze"
    /\ IF content /\ system_prompt(wk[w].prompt_version) = "AttributeError"
       THEN wk' = [wk EXCEPT ![w].pending_items = Tail(@),
                             ![w].articles_failed = @ + 1,
                             ![w].pc = AfterItem(Tail(wk[w].pending_items),
                                                 wk[w].is_last_slot)]
       ELSE IF content
       THEN LET r == Attempts(resps, 1, <<>>)
            IN wk' = [wk EXCEPT ![w].pc = "persist",
                                ![w].result_json = r.result_json,
                                ![w].calls = r.calls,
                                ![w].attempts = SubSeq(resps, 1, r.calls),
                                ![w].requests =
                                    [i \in 1..r.calls |->
                                        current_user_prompt(i - 1)]]
       ELSE wk' = [wk EXCEPT ![w].pending_items = Tail(@),
                             ![w].pc = AfterItem(Tail(wk[w].pending_items),
                                                 wk[w].is_last_slot)]
    /\ UNCHANGED <<clock, db, feed, werss, triggers>>

\* The AnalysisResult analyze_article builds from result_json.
NewAnalysis(run_id, prompt_id, result_json) ==
    [score |-> IF "score" \in result_json.keys THEN result_json.score ELSE 0,
     has_opportunity |-> IF "has_opportunity" \in result_json.keys
                         THEN result_json.has_opportunity ELSE FALSE,
     run_id |-> run_id,
     prompt_version_id |-> prompt_id,
     result_json |-> result_json.keys]

\* The analysis_result table without its unique constraint.
no_uq_analysis_content_item(item) == TRUE

\* analysis_result.content_item_id is unique: the flush of a row for item succeeds.
uq_analysis_content_item(item) == analysis_result[item] = <<>>

\* The Opportunity rows without the index of enumerate.
OpportunityRecordsUnindexed(analysis_id, opportunities) ==
    [i \in DOMAIN opportunities |->
        [analysis_id |-> analysis_id, idx |-> 0,
         title |-> opportunities[i].title]]

\* The Opportunity rows the loop over enumerate(opportunities) adds to the
\* session in list order, up to the first entry that raises.
OpportunityRecords(analysis_id, opportunities) ==
    LET broken == {i \in DOMAIN opportunities : ~opportunities[i].object}
        built == IF broken = {} THEN Len(opportunities)
                 ELSE (CHOOSE i \in broken : \A j \in broken : i <= j) - 1
    IN [i \in 1..built |->
           [analysis_id |-> analysis_id, idx |-> i - 1,
            title |-> opportunities[i].title]]

\* analyze_article after the retry loop. Without a result the item is marked
\* failed. Otherwise the AnalysisResult is flushed: a failed flush leaves the
\* session's transaction rolled back, the item handler's log line raises on
\* the expired item and the exception reaches execute_slot's outer except;
\* the flush waits while another session's open transaction holds a row for
\* the item. Then the Opportunity rows are built: an entry that raises ends
\* analyze_article in the item handler, with the inserted AnalysisResult and
\* the rows built so far left in the session and the item still pending.
\* Else everything is committed with the item marked done.
persist(w) ==
    /\ wk[w].pc = "persist"
    /\ LET item == Head(wk[w].pending_items)
           rest == Tail(wk[w].pending_items)
           next == [wk[w] EXCEPT !.pending_items = rest, !.result_json = <<>>,
                                 !.calls = 0, !.attempts = <<>>, !.requests = <<>>,
                                 !.flushed = <<>>,
                                 !.pc = AfterItem(rest, wk[w].is_last_slot)]
       IN IF ~Truthy(wk[w].result_json)
          THEN /\ content_item' = [content_item EXCEPT ![item] = <<ItemFailed>>]
               /\ analysis_result' = SessionAnalyses(w)
               /\ opportunity' = SessionOpportunities(w)
               /\ wk' = [wk EXCEPT ![w] = [next EXCEPT !.articles_failed = @ + 1]]
          ELSE IF ~uq_analysis_content_item(item)
          THEN /\ UNCHANGED <<content_item, analysis_result, opportunity>>
               /\ wk' = [wk EXCEPT ![w].pc = "failed",
                                   ![w].needs_rollback = TRUE,
                                   ![w].flushed = <<>>,
                                   ![w].result_json = <<>>, ![w].calls = 0,
                                   ![w].attempts = <<>>, ![w].requests = <<>>]
          ELSE LET analysis == NewAnalysis(wk[w].run, wk[w].prompt_version,
                                           wk[w].result_json[1])
                   opportunities == wk[w].result_json[1].opportunities
                   records == OpportunityRecords(item, opportunities)
               IN /\ \A v \in Workers \ {w} :
                        \A i \in DOMAIN wk[v].flushed : wk[v].flushed[i].item # item
                  /\ IF Len(records) < Len(opportunities)
                     THEN /\ UNCHANGED <<content_item, analysis_result,
                                         opportunity>>
                          /\ wk' = [wk EXCEPT ![w] =
                                      [next EXCEPT
                                          !.articles_failed = @ + 1,
                                          !.flushed =
                                              Append(wk[w].flushed,
                                                     [item |-> item,
                                                      analysis |-> analysis,
                                                      opportunities |-> records])]]
                     ELSE /\ analysis_result' =
                                [SessionAnalyses(w) EXCEPT ![item] = <<analysis>>]
                          /\ opportunity' = SessionOpportunities(w) \o records
                          /\ content_item' =
                                [content_item EXCEPT ![item] = <<ItemDone>>]
                          /\ wk' = [wk EXCEPT ![w] =
                                      IF analysis.has_opportunity
                                      THEN [wk[w] EXCEPT !.pc = "should_push",
                                                         !.result_json = <<>>,
                                                         !.calls = 0,
                                                         !.flushed = <<>>,
                                                         !.attempts = <<>>,
                                                         !.requests = <<>>]
                                      ELSE next]
    /\ UNCHANGED <<clock, settings, slot_run, daily_report, notification_log,
                   feed, werss, prompt_version, triggers>>

\* -------------------------------------------------------- notification gate

\* hashlib.sha1(f"{run_date}:{slot}:opportunity:{analysis.id}")
OpportunityMsgUuid(run_date, slot, analysis_id) ==
    <<run_date, slot, "opportunity", analysis_id>>

\* generate_msg_uuid(date, slot, push_type)
generate_msg_uuid(date, slot, push_type) == <<date, slot, push_type>>

\* Successful opportunity pushes of the date.
today_pushes(run_date) ==
    Cardinality({i \in DOMAIN notification_log :
                    /\ notification_log[i].report_date = run_date
                    /\ notification_log[i].push_type = "opportunity"
                    /\ notification_log[i].status = NotifySuccess})

\* The gate without the count of the date's successful pushes.
should_push_without_quota(analysis, run_date, slot) ==
    IF slot = Slot2200 THEN FALSE
    ELSE IF analysis.score < get_setting_value("push_score_threshold",
                                               DefaultThreshold) THEN FALSE
    ELSE analysis.has_opportunity

\* should_push_opportunity(session, analysis, run_date, slot)
should_push_opportunity(analysis, run_date, slot) ==
    IF slot = Slot2200 THEN FALSE
    ELSE IF analysis.score < get_setting_value("push_score_threshold",
                                               DefaultThreshold) THEN FALSE
    ELSE IF ~analysis.has_opportunity THEN FALSE
    ELSE today_pushes(run_date) < DailyQuota

\* The gate decision for the analysis just committed.
should_push(w) ==
    /\ wk[w].pc = "should_push"
    /\ LET item == Head(wk[w].pending_items)
           rest == Tail(wk[w].pending_items)
       IN IF should_push_opportunity(analysis_result[item][1], Today, wk[w].slot)
          THEN wk' = [wk EXCEPT ![w].pc = "push"]
          ELSE wk' = [wk EXCEPT ![w].pending_items = rest,
                                ![w].pc = AfterItem(rest, wk[w].is_last_slot)]
    /\ UNCHANGED <<clock, db, feed, werss, triggers>>

\* The notification_log table without its unique constraint.
no_uq_notification_msg_uuid(msg_uuid) == TRUE

\* notification_log.msg_uuid is unique: the commit of a row with this key succeeds.
uq_notification_msg_uuid(msg_uuid) ==
    \A i \in DOMAIN notification_log : notification_log[i].msg_uuid # msg_uuid

\* The NotificationLog row written after a provider call that returned.
NewLog(slot, push_type, msg_uuid, subject, response) ==
    [report_date |-> Today, slot |-> slot, push_type |-> push_type,
     msg_uuid |-> msg_uuid, subject |-> subject,
     status |-> IF response = "ok" THEN NotifySuccess ELSE NotifyFailed]

\* The notification_log table after a send: the row is added when the
\* provider call returned and the commit of the row succeeded.
Logged(slot, push_type, msg_uuid, subject, response) ==
    IF response # "raise" /\ uq_notification_msg_uuid(msg_uuid)
    THEN Append(notification_log,
                NewLog(slot, push_type, msg_uuid, subject, response))
    ELSE notification_log

\* push_opportunity_alert: the provider call (errcode 0, another errcode, or
\* an exception for an HTTP error status or a transport error), then the log
\* row and its commit, all inside one try whose except returns False.
push_opportunity_alert(w, response) ==
    /\ wk[w].pc = "push"
    /\ LET item == Head(wk[w].pending_items)
           rest == Tail(wk[w].pending_items)
           msg_uuid == OpportunityMsgUuid(Today, wk[w].slot, item)
       IN /\ notification_log' =
                Logged(wk[w].slot, "opportunity", msg_uuid, item, response)
          /\ wk' = [wk EXCEPT ![w].pending_items = rest,
                              ![w].pushed_count =
                                 IF response = "ok"
                                    /\ uq_notification_msg_uuid(msg_uuid)
                                 THEN @ + 1 ELSE @,
                              ![w].pc = AfterItem(rest, wk[w].is_last_slot)]
    /\ UNCHANGED <<clock, settings, slot_run, content_item, analysis_result,
                   opportunity, daily_report, feed, werss, prompt_version, triggers>>

\* -------------------------------------------------------------- daily report

\* digest_md taken from the summarization call whatever was analysed.
DigestMdAlwaysSummarized(total_articles, response) ==
    IF response = "raise" THEN "fallback list"
    ELSE IF response = "digest_md" THEN "ai digest"
    ELSE ""

\* The summarization call raises, returns a document with a digest_md and
\* has_opportunity true, or returns a document with neither key.
\* digest_md of generate_and_push_daily_report: from the document, the
\* templated list when the call raises, the fixed text when nothing was
\* analysed.
DigestMd(total_articles, response) ==
    IF total_articles > 0
    THEN IF response = "raise" THEN "fallback list"
         ELSE IF response = "digest_md" THEN "ai digest"
         ELSE ""
    ELSE "no articles analysed today"

\* has_opportunity of generate_and_push_daily_report.
HasOpportunity(total_articles, total_opportunities, response) ==
    IF total_articles > 0
    THEN IF response = "raise" THEN total_opportunities > 0
         ELSE response = "digest_md"
    ELSE FALSE

\* daily_report.report_date is unique: an insert for the date succeeds.
uq_daily_report_date(date) ==
    \A i \in DOMAIN daily_report : daily_report[i].report_date # date

\* The first daily_report row of the date, 0 when there is none.
FirstDailyReport(date) ==
    IF uq_daily_report_date(date) THEN 0
    ELSE CHOOSE i \in DOMAIN daily_report :
            /\ daily_report[i].report_date = date
            /\ \A j \in 1..(i - 1) : daily_report[j].report_date # date

\* generate_and_push_daily_report up to the lookup of the date's row: the
\* analyses of the items published on the date, the counts, the
\* summarization call when something was analysed, and the lookup.
daily_report_generate(w, response) ==
    /\ wk[w].pc = "daily_report"
    /\ LET today_analyses == {a \in Articles : SessionAnalyses(w)[a] # <<>>}
           threshold == get_setting_value("push_score_threshold", DefaultThreshold)
           total_articles == Cardinality(today_analyses)
           total_opportunities ==
               Cardinality({a \in today_analyses :
                               /\ SessionAnalyses(w)[a][1].has_opportunity
                               /\ SessionAnalyses(w)[a][1].score >= threshold})
       IN wk' = [wk EXCEPT ![w].pc = "send_report",
                           ![w].analyses = today_analyses,
                           ![w].total_articles = total_articles,
                           ![w].total_opportunities = total_opportunities,
                           ![w].digest_calls =
                               IF total_articles > 0 THEN 1 ELSE 0,
                           ![w].digest_md = DigestMd(total_articles, response),
                           ![w].has_opportunity =
                               HasOpportunity(total_articles,
                                              total_opportunities, response),
                           ![w].report = FirstDailyReport(Today)]
    /\ UNCHANGED <<clock, db, feed, werss, triggers>>

\* The upsert that always adds a row.
save_report_appending(w) ==
    Append(daily_report,
           [report_date |-> Today, digest_md |-> wk[w].digest_md,
            digest_json |-> wk[w].analyses,
            stats |-> [articles_analyzed |-> wk[w].total_articles,
                       opportunities_found |-> wk[w].total_opportunities],
            updated |-> FALSE])

\* The daily_report table the commit of the upsert asks for: the row found
\* is overwritten in place, or a row is added.
save_report(w) ==
    IF wk[w].report # 0
    THEN [daily_report EXCEPT ![wk[w].report] =
             [@ EXCEPT !.digest_md = wk[w].digest_md,
                       !.digest_json = wk[w].analyses,
                       !.stats = [articles_analyzed |-> wk[w].total_articles,
                                  opportunities_found |->
                                      wk[w].total_opportunities],
                       !.updated = TRUE]]
    ELSE Append(daily_report,
                [report_date |-> Today, digest_md |-> wk[w].digest_md,
                 digest_json |-> wk[w].analyses,
                 stats |-> [articles_analyzed |-> wk[w].total_articles,
                            opportunities_found |-> wk[w].total_opportunities],
                 updated |-> FALSE])

\* The arguments of send_daily_report.
DailyMessage(w) ==
    [has_opportunity |-> wk[w].has_opportunity,
     total_articles |-> wk[w].total_articles,
     total_opportunities |-> wk[w].total_opportunities,
     digest |-> wk[w].digest_md]

\* The commit of the upsert, which is outside any try of the function: the
\* insert of a second row for the date is rejected and the exception reaches
\* execute_slot's outer except. Then send_daily_report, the log row and its
\* commit, inside one try whose except returns False.
daily_report_send(w, response) ==
    /\ wk[w].pc = "send_report"
    /\ LET done == [wk[w] EXCEPT !.analyses = {}, !.total_articles = 0,
                                 !.total_opportunities = 0, !.digest_calls = 0,
                                 !.digest_md = "", !.has_opportunity = FALSE,
                                 !.report = 0]
       IN IF wk[w].report = 0 /\ ~uq_daily_report_date(Today)
          THEN /\ UNCHANGED <<daily_report, notification_log, analysis_result,
                              opportunity>>
               /\ wk' = [wk EXCEPT ![w] = [done EXCEPT !.pc = "failed",
                                                       !.flushed = <<>>]]
          ELSE /\ daily_report' = save_report(w)
               /\ analysis_result' = SessionAnalyses(w)
               /\ opportunity' = SessionOpportunities(w)
               /\ notification_log' =
                     Logged(wk[w].slot, "daily",
                            generate_msg_uuid(Today, wk[w].slot, "daily"), 0,
                            response)
               /\ wk' = [wk EXCEPT ![w] = [done EXCEPT !.pc = "finish",
                                                       !.flushed = <<>>,
                                                       !.daily_sends = @ + 1]]
    /\ UNCHANGED <<clock, settings, slot_run, content_item, feed, werss,
                   prompt_version, triggers>>

\* ------------------------------------------------------------- specification

\* The steps of execute_slot, by part. E says what the collaborators can do
\* in a behaviour: E.slots the slots the scheduler triggers, E.listing the
\* outcomes of the feed listing (TRUE: it returned), E.failed the sets of
\* articles whose detail fetch fails, E.content whether an item has content,
\* E.responses the classification responses, E.provider the webhook
\* responses, E.digest the summarization responses.
Registry(E) ==
    \/ \E w \in Workers, slot \in E.slots : run_slot(w, slot)
    \/ \E w \in Workers : get_or_create_slot_run(w)
    \/ \E w \in Workers : insert_slot_run(w)
    \/ \E w \in Workers : mark_running(w)
    \/ \E w \in Workers : finish(w)
    \/ \E w \in Workers : run_failed(w)

Ingestion(E) ==
    \/ \E w \in Workers, ok \in E.listing, failed \in E.failed :
          fetch_articles(w, ok, failed)
    \/ \E w \in Workers : save_articles(w)

Classification(E) ==
    \/ \E w \in Workers, content \in E.content,
          resps \in [1..MaxRetries -> E.responses] : analyze(w, content, resps)
    \/ \E w \in Workers : persist(w)

Gate(E) ==
    \/ \E w \in Workers : should_push(w)
    \/ \E w \in Workers, r \in E.provider : push_opportunity_alert(w, r)

Daily(E) ==
    \/ \E w \in Workers, r \in E.digest : daily_report_generate(w, r)
    \/ \E w \in Workers, r \in E.provider : daily_report_send(w, r)

Pipeline(E) ==
    \/ Registry(E)
    \/ Ingestion(E)
    \/ Classification(E)
    \/ Gate(E)
    \/ Daily(E)

\* Every outcome of every collaborator.
AnyEnv ==
    [slots |-> TriggerSlots, listing |-> BOOLEAN,
     failed |-> SUBSET (1..NumArticles), content |-> BOOLEAN,
     responses |-> {Raises, Returns(Eligible), Returns(LowScore),
                    Returns(NoOpportunity), Returns(NoSummary), Returns(EmptyDoc)},
     provider |-> {"ok", "errcode", "raise"},
     digest |-> {"raise", "digest_md", "no_digest_md"}]

Next == Pipeline(AnyEnv)

\* Scheduled runs of both slots with every outcome of every collaborator.
Spec == Init /\ [][Next]_vars

\* A day on which the feed lists no article.
InitRegistry ==
    /\ InitDb
    /\ feed = <<>>

\* Collaborators that answer, with a feed listing that may raise.
QuietEnv ==
    [slots |-> TriggerSlots, listing |-> BOOLEAN, failed |-> {{}},
     content |-> {TRUE}, responses |-> {Returns(Eligible)},
     provider |-> {"ok"}, digest |-> {"digest_md"}]

NextRegistry ==
    \/ Registry(QuietEnv)
    \/ Ingestion(QuietEnv)
    \/ Daily(QuietEnv)
    \/ \E w \in Workers, slot \in TriggerSlots : run_analysis_now(w, slot)
    \/ \E w \in Workers : Crash(w)
    \/ check_and_fix_stale_slots
    \/ Tick

\* The run registry: scheduled and manual triggers, crashes, the clock and
\* stale-run reconciliation.
SpecRegistry == InitRegistry /\ [][NextRegistry]_vars

\* Every outcome of the webhook, with the other collaborators answering.
NotifyEnv ==
    [slots |-> TriggerSlots, listing |-> {TRUE}, failed |-> {{}},
     content |-> {TRUE}, responses |-> {Returns(Eligible)},
     provider |-> {"ok", "errcode", "raise"}, digest |-> {"digest_md"}]

NextNotify == Pipeline(NotifyEnv)

SpecNotify == Init /\ [][NextNotify]_vars

\* A day on which the feed lists more eligible articles than the daily quota
\* and every collaborator answers.
InitQuota ==
    /\ InitDb
    /\ feed = Listing(Articles)

QuotaEnv ==
    [slots |-> {Slot1200, Slot2200}, listing |-> {TRUE}, failed |-> {{}},
     content |-> {TRUE}, responses |-> {Returns(Eligible)},
     provider |-> {"ok"}, digest |-> {"digest_md"}]

NextQuota == Pipeline(QuotaEnv)

SpecQuota == InitQuota /\ [][NextQuota]_vars

\* An administrator changes the slot list and the threshold while runs execute.
SettingsEnv ==
    [slots |-> TriggerSlots, listing |-> {TRUE}, failed |-> {{}},
     content |-> {TRUE},
     responses |-> {Returns(Eligible), Returns(LowScore), Returns(NoOpportunity)},
     provider |-> {"ok"}, digest |-> {"digest_md"}]

NextSettings ==
    \/ Pipeline(SettingsEnv)
    \/ \E value \in SlotLists : update_settings("schedule_slots", value)
    \/ \E value \in Thresholds : update_settings("push_score_threshold", value)

SpecSettings == Init /\ [][NextSettings]_vars

\* Runs of a slot that is not the last, with classification attempts that
\* raise, return an incomplete document or return a complete one, and the
\* other collaborators answering.
ClassifyEnv ==
    [slots |-> {Slot1200}, listing |-> {TRUE}, failed |-> {{}},
     content |-> {TRUE},
     responses |-> {Raises, Returns(NoSummary), Returns(Eligible)},
     provider |-> {"ok"}, digest |-> {"digest_md"}]

NextClassify ==
    \/ Registry(ClassifyEnv)
    \/ Ingestion(ClassifyEnv)
    \/ Classification(ClassifyEnv)
    \/ Gate(ClassifyEnv)

SpecClassify == Init /\ [][NextClassify]_vars

\* Runs of both slots with classification attempts that raise or return a
\* complete document and a chat provider that accepts or raises.
TerminationEnv ==
    [slots |-> TriggerSlots, listing |-> BOOLEAN, failed |-> {{}},
     content |-> {TRUE}, responses |-> {Raises, Returns(Eligible)},
     provider |-> {"ok", "raise"}, digest |-> {"digest_md"}]

NextTermination == Pipeline(TerminationEnv)

\* Workers that do not crash, with external calls that return or raise: an
\* execution that can take its next step takes it. The scheduler is not
\* obliged to hand out a slot.
SpecTermination ==
    /\ Init
    /\ [][NextTermination]_vars
    /\ \A w \in Workers :
          WF_vars(NextTermination /\ wk'[w] # wk[w] /\ triggers' = triggers)

\* Articles the feed can list on a day of ingestion: one published after the
\* start of the behaviour, two within the three days before it, one earlier.
Catalogue ==
    {[id |-> 1, publish_time |-> 5], [id |-> 2, publish_time |-> 0 - 10],
     [id |-> 3, publish_time |-> 0 - 20], [id |-> 4, publish_time |-> 0 - 5000]}

\* The feed lists up to MaxFeedLen of them, in any order, possibly one twice.
InitIngest ==
    /\ InitDb
    /\ feed \in UNION {[1..n -> Catalogue] : n \in 0..MaxFeedLen}

IngestEnv ==
    [slots |-> {Slot1200}, listing |-> {TRUE}, failed |-> {{}, {2}},
     content |-> {TRUE}, responses |-> {Returns(NoOpportunity)},
     provider |-> {"ok"}, digest |-> {"digest_md"}]

NextIngest ==
    \/ Registry(IngestEnv)
    \/ Ingestion(IngestEnv)
    \/ Classification(IngestEnv)

SpecIngest == InitIngest /\ [][NextIngest]_vars

\* Runs of the day's last slot, with classification attempts that raise or
\* return a complete document and every outcome of the summarization call.
DailyEnv ==
    [slots |-> {Slot2200}, listing |-> {TRUE}, failed |-> {{}},
     content |-> {TRUE}, responses |-> {Raises, Returns(NoOpportunity)},
     provider |-> {"ok", "raise"},
     digest |-> {"raise", "digest_md", "no_digest_md"}]

NextDaily ==
    \/ Registry(DailyEnv)
    \/ Ingestion(DailyEnv)
    \/ Classification(DailyEnv)
    \/ Daily(DailyEnv)

SpecDaily == Init /\ [][NextDaily]_vars

\* An administrator changes the slot list while runs of 12:00 and 22:00
\* execute on a day on which the feed lists no article.
NextLastSlot ==
    \/ Registry(QuietEnv)
    \/ Ingestion(QuietEnv)
    \/ Daily(QuietEnv)
    \/ \E value \in SlotLists : update_settings("schedule_slots", value)

SpecLastSlot == InitRegistry /\ [][NextLastSlot]_vars

\* An administrator creates, activates and deletes prompt versions while
\* 12:00 runs ingest and classify the listed articles.
PromptUseEnv ==
    [slots |-> {Slot1200}, listing |-> BOOLEAN, failed |-> {{}},
     content |-> BOOLEAN, responses |-> {Raises, Returns(NoOpportunity)},
     provider |-> {"ok"}, digest |-> {"digest_md"}]

NextPromptUse ==
    \/ Registry(PromptUseEnv)
    \/ Ingestion(PromptUseEnv)
    \/ Classification(PromptUseEnv)
    \/ \E name \in PromptNames : create_prompt(name)
    \/ \E prompt_id \in 1..MaxPrompts : activate_prompt(prompt_id)
    \/ \E prompt_id \in 1..MaxPrompts : delete_prompt(prompt_id)

SpecPromptUse == Init /\ [][NextPromptUse]_vars

\* 12:00 runs whose classification responses list opportunities, some with
\* an entry that is no object.
OpportunityEnv ==
    [slots |-> {Slot1200}, listing |-> {TRUE}, failed |-> {{}},
     content |-> {TRUE},
     responses |-> {Raises, Returns(TwoOpportunities),
                    Returns(BrokenOpportunity)},
     provider |-> {"ok"}, digest |-> {"digest_md"}]

NextOpportunities ==
    \/ Registry(OpportunityEnv)
    \/ Ingestion(OpportunityEnv)
    \/ Classification(OpportunityEnv)
    \/ Gate(OpportunityEnv)

SpecOpportunities == Init /\ [][NextOpportunities]_vars

\* The answers of the feed to the HTTP calls of one _request.
Answers ==
    [refresh : {"ok", "raise"}, login1 : {"ok", "raise"},
     login2 : {"ok", "raise"}, expires_in : ExpiresIn,
     status1 : {"200", "401", "500", "timeout"},
     status2 : {"200", "401", "500", "timeout"}]

NextWerss ==
    \/ \E o \in Answers : request(o)
    \/ Minute

\* Requests of one WeRSSClient as time passes.
SpecWerss == Init /\ [][NextWerss]_vars

\* A feed that lists no article, one short page, or MaxListed articles
\* published after the window's end, while 12:00 runs execute.
InitPaging ==
    /\ InitDb
    /\ feed \in {[i \in 1..n |-> [id |-> 1, publish_time |-> 5]] :
                    n \in {0, 1, MaxListed}}

PagingEnv ==
    [slots |-> {Slot1200}, listing |-> BOOLEAN, failed |-> {{}},
     content |-> {TRUE}, responses |-> {Returns(NoOpportunity)},
     provider |-> {"ok"}, digest |-> {"digest_md"}]

NextPaging ==
    \/ Registry(PagingEnv)
    \/ Ingestion(PagingEnv)

SpecPaging == InitPaging /\ [][NextPaging]_vars

\* An administrator creates, activates and deletes prompt versions while
\* 12:00 runs execute on a day on which the feed lists no article or raises.
PromptEnv ==
    [slots |-> {Slot1200}, listing |-> BOOLEAN, failed |-> {{}},
     content |-> {TRUE}, responses |-> {Returns(Eligible)},
     provider |-> {"ok"}, digest |-> {"digest_md"}]

NextPrompts ==
    \/ Registry(PromptEnv)
    \/ Ingestion(PromptEnv)
    \/ \E name \in PromptNames : create_prompt(name)
    \/ \E prompt_id \in 1..MaxPrompts : activate_prompt(prompt_id)
    \/ \E prompt_id \in 1..MaxPrompts : delete_prompt(prompt_id)

SpecPrompts == InitRegistry /\ [][NextPrompts]_vars

\* --------------------------------------------------------------- properties

\* C1: once a slot_run row's status is succeeded or failed, no step changes
\* that row's status.
TerminalStatusWriteOnce ==
    [][\A i \in DOMAIN slot_run :
          slot_run[i].status \in {RunSuccess, RunFailed}
          => slot_run'[i].status = slot_run[i].status]_vars

\* C2: the date never has more than DailyQuota notification_log rows of push
\* type opportunity with status success.
DailyQuotaRespected == today_pushes(Today) <= DailyQuota

\* C3: when every attempt of the retry loop failed (it raised, or returned a
\* document missing a mandatory field), the step that ends analyze_article
\* marks the item failed, writes no analysis_result row and goes on with the
\* next pending item.
ExhaustedAttemptsFailItem ==
    [][\A w \in Workers :
          (/\ wk[w].pc = "persist"
           /\ wk'[w].pc # "persist"
           /\ \/ wk[w].result_json = <<>>
              \/ missing(wk[w].result_json[1]) # {})
          => LET item == Head(wk[w].pending_items)
                 rest == Tail(wk[w].pending_items)
             IN /\ content_item'[item] = <<ItemFailed>>
                /\ analysis_result'[item] = analysis_result[item]
                /\ wk'[w].pc = AfterItem(rest, wk[w].is_last_slot)]_vars

\* C4: a worker executing the day's last slot that is about to write a
\* terminal status has made exactly one digest send attempt.
LastSlotSendsDigestOnce ==
    \A w \in Workers :
       (/\ \/ wk[w].pc = "finish"
           \/ wk[w].pc = "failed" /\ ~wk[w].needs_rollback
        /\ is_last_slot_of_day(wk[w].slot))
       => wk[w].daily_sends = 1

\* C5: every send of an opportunity alert or of the daily digest adds exactly
\* one notification_log row, with status success or failed, and the run goes
\* on.
SendWritesOneRecord ==
    [][\A w \in Workers :
          (wk[w].pc \in {"push", "send_report"} /\ wk'[w].pc # wk[w].pc)
          => /\ Len(notification_log') = Len(notification_log) + 1
             /\ notification_log'[Len(notification_log')].status
                   \in {NotifySuccess, NotifyFailed}
             /\ wk'[w].pc # "failed"]_vars

\* C6: the daily_report row of the date holds a non-empty digest_md.
DigestMdNonEmpty ==
    daily_report # <<>> => daily_report[1].digest_md # ""

\* C7: the gate lets an alert through only when, at the decision, the slot is
\* not the last of the configured slots, the score is at least the configured
\* threshold and has_opportunity is true.
AlertOnlyWhenEligible ==
    [][\A w \in Workers :
          (wk[w].pc = "should_push" /\ wk'[w].pc = "push")
          => LET analysis == analysis_result[Head(wk[w].pending_items)][1]
             IN /\ ~is_last_slot_of_day(wk[w].slot)
                /\ analysis.score >= get_setting_value("push_score_threshold",
                                                       DefaultThreshold)
                /\ analysis.has_opportunity]_vars

\* C8: a call of get_or_create_slot_run for a (date, slot) that has a row
\* returns that row, the same one every other caller holds, reports it as not
\* new, changes no field of any row, and the row is the only one of its key.
GetOrCreateTwice ==
    [][\A w \in Workers :
          (/\ wk[w].pc = "get_or_create"
           /\ wk'[w].pc \in {"mark_running", "insert_slot_run"}
           /\ SlotRunIds(wk[w].slot) # {})
          => /\ wk'[w].pc = "mark_running"
             /\ wk'[w].is_new = FALSE
             /\ slot_run' = slot_run
             /\ SlotRunIds(wk[w].slot) = {wk'[w].run}
             /\ \A v \in Workers \ {w} :
                   (wk[v].run # 0 /\ wk[v].slot = wk[w].slot)
                   => wk[v].run = wk'[w].run]_vars

\* A second caller holds, as not new, the row the first caller created.
SecondCallReturnedExisting ==
    \E w, v \in Workers :
       /\ wk[w].pc = "mark_running"
       /\ ~wk[w].is_new
       /\ wk[v].is_new
       /\ wk[v].run = wk[w].run
       /\ wk[v].slot = wk[w].slot

\* C9: there is at most one slot_run row per (date, slot).
OneRunPerDateSlot ==
    \A slot \in TriggerSlots : Cardinality(SlotRunIds(slot)) <= 1

\* A worker whose lookup found no row is about to insert, and another
\* worker's row of the same (date, slot) is already there.
LostInsertRace ==
    \E w \in Workers :
       /\ wk[w].pc = "insert_slot_run"
       /\ SlotRunIds(wk[w].slot) # {}

\* C10: the msg_uuid of every notification_log row is the key computed from
\* the row's date, slot, push type and subject, rows that agree on these four
\* agree on the key, and no two rows with status success share a key.
IdempotencyKeyUnique ==
    /\ \A i \in DOMAIN notification_log :
          LET r == notification_log[i]
          IN r.msg_uuid = IF r.push_type = "opportunity"
                          THEN OpportunityMsgUuid(r.report_date, r.slot, r.subject)
                          ELSE generate_msg_uuid(r.report_date, r.slot, r.push_type)
    /\ \A i, j \in DOMAIN notification_log :
          LET r == notification_log[i]
              q == notification_log[j]
          IN /\ (/\ r.report_date = q.report_date /\ r.slot = q.slot
                 /\ r.push_type = q.push_type /\ r.subject = q.subject)
                => r.msg_uuid = q.msg_uuid
             /\ (/\ r.status = NotifySuccess /\ q.status = NotifySuccess
                 /\ r.msg_uuid = q.msg_uuid)
                => i = j

\* Two workers ran the same last slot, both sent the digest, and the log
\* holds a success row under the digest's key.
DigestSentTwiceLoggedOnce ==
    \E w, v \in Workers :
       /\ w # v
       /\ wk[w].slot = wk[v].slot
       /\ wk[w].pc = "finish" /\ wk[w].daily_sends = 1
       /\ wk[v].pc = "finish" /\ wk[v].daily_sends = 1
       /\ \E i \in DOMAIN notification_log :
             /\ notification_log[i].status = NotifySuccess
             /\ notification_log[i].msg_uuid =
                   generate_msg_uuid(Today, wk[w].slot, "daily")

QuotaReachedBlocksAlert ==
    [][\A w \in Workers :
          (/\ wk[w].pc = "should_push"
           /\ wk'[w].pc # "should_push"
           /\ today_pushes(Today) >= DailyQuota)
          => /\ wk'[w].pc # "push"
             /\ wk'[w].pc = AfterItem(Tail(wk[w].pending_items),
                                      wk[w].is_last_slot)
             /\ wk'[w].pending_items = Tail(wk[w].pending_items)
             /\ notification_log' = notification_log]_vars

\* The quota is used up and an eligible analysis of a run that is not the
\* 22:00 one has gone through the gate without any notification_log row.
QuotaBlockedVerdict ==
    /\ today_pushes(Today) = DailyQuota
    /\ \E a \in Articles :
          /\ analysis_result[a] # <<>>
          /\ analysis_result[a][1].has_opportunity
          /\ analysis_result[a][1].score >=
                get_setting_value("push_score_threshold", DefaultThreshold)
          /\ slot_run[analysis_result[a][1].run_id].slot # Slot2200
          /\ \A i \in DOMAIN notification_log : notification_log[i].subject # a
          /\ \A w \in Workers :
                \/ wk[w].pending_items = <<>>
                \/ Head(wk[w].pending_items) # a

\* C13: in a run of a slot that is not the last of the configured slots, an
\* analysis with score at least the threshold and has_opportunity true,
\* decided while fewer than DailyQuota successful opportunity rows exist for
\* the date, passes the gate, and the send accepted by the provider leaves
\* exactly one opportunity row with status success for it.
EligibleVerdictAlerted ==
    [][\A w \in Workers :
          /\ (/\ wk[w].pc = "should_push"
              /\ wk'[w].pc # "should_push"
              /\ ~is_last_slot_of_day(wk[w].slot)
              /\ LET analysis == analysis_result[Head(wk[w].pending_items)][1]
                 IN /\ analysis.has_opportunity
                    /\ analysis.score >=
                          get_setting_value("push_score_threshold",
                                            DefaultThreshold)
              /\ today_pushes(Today) < DailyQuota)
             => wk'[w].pc = "push"
          /\ (wk[w].pc = "push" /\ wk'[w].pc # "push")
             => Cardinality({i \in DOMAIN notification_log' :
                   /\ notification_log'[i].push_type = "opportunity"
                   /\ notification_log'[i].subject = Head(wk[w].pending_items)
                   /\ notification_log'[i].status = NotifySuccess}) = 1]_vars

\* C14: ingestion makes no detail fetch for an external id that has a row,
\* fetches the detail of an id it adds once even when the feed lists it
\* twice, and its commit leaves every existing content_item row as it is and adds one
\* row per new id.
AlreadyPersistedSkipped ==
    [][\A w \in Workers :
          /\ (wk[w].pc = "fetch" /\ wk'[w].pc = "save_articles")
             => /\ \A i \in DOMAIN wk'[w].detail_calls :
                      /\ content_item[wk'[w].detail_calls[i]] = <<>>
                      /\ \A j \in DOMAIN wk'[w].detail_calls :
                            (/\ wk'[w].detail_calls[i] = wk'[w].detail_calls[j]
                             /\ wk'[w].detail_calls[i] \in wk'[w].new_items)
                            => i = j
                /\ wk'[w].new_items \subseteq Range(wk'[w].detail_calls)
                /\ content_item' = content_item
          /\ (wk[w].pc = "save_articles" /\ wk'[w].pc # "save_articles")
             => /\ \A a \in Articles :
                      content_item[a] # <<>> => content_item'[a] = content_item[a]
                /\ Cardinality({a \in Articles : content_item'[a] # <<>>})
                      \in {Cardinality({a \in Articles : content_item[a] # <<>>}),
                           Cardinality({a \in Articles : content_item[a] # <<>>})
                              + Cardinality(wk[w].new_items)}]_vars

\* An ingestion listed, inside its window, an article that already had a row
\* and made no detail fetch for it.
ReingestedExisting ==
    \E w \in Workers, i \in DOMAIN feed :
       /\ wk[w].pc = "save_articles"
       /\ content_item[feed[i].id] # <<>>
       /\ slot_run[wk[w].run].window_start_at <= feed[i].publish_time
       /\ feed[i].publish_time <= slot_run[wk[w].run].window_end_at
       /\ feed[i].id \notin Range(wk[w].detail_calls)

ManualGuard ==
    [][/\ \A w \in Workers :
             (wk[w].pc = "idle" /\ wk'[w].pc = "get_or_create" /\ wk'[w].manual)
             => /\ slot_run' = FixStale
                /\ \A i \in DOMAIN slot_run' : slot_run'[i].status # RunRunning
       /\ (triggers' = triggers + 1 /\ \A w \in Workers : wk'[w].pc = wk[w].pc)
          => /\ slot_run' = FixStale
             /\ \E i \in DOMAIN slot_run' : slot_run'[i].status = RunRunning
             /\ \E w \in Workers : wk'[w].pc = "idle" /\ wk'[w].rejected
       /\ (/\ triggers' = triggers + 1
           /\ \E i \in DOMAIN slot_run : FixStale[i].status = RunRunning)
          => ~\E w \in Workers : wk'[w].manual /\ ~wk[w].manual]_vars

\* A manual request was answered with an error while a run is running.
ManualRejected ==
    /\ \E w \in Workers : wk[w].pc = "idle" /\ wk[w].rejected
    /\ \E i \in DOMAIN slot_run : slot_run[i].status = RunRunning

\* C17: when a trigger decides whether to execute (a scheduled execute_slot
\* looks its row up and tests its status, a manual request tests for running
\* rows), no slot_run row is running with a start more than StaleMinutes ago:
\* each such row has been set to failed with the timed-out error.
StaleReconciledBeforeDecision ==
    [][\A w \in Workers :
          /\ (/\ wk[w].pc \in {"get_or_create", "mark_running"}
              /\ ~wk[w].manual
              /\ wk'[w].pc # wk[w].pc)
             => StaleIds = {}
          /\ (wk[w].pc = "idle" /\ wk'[w].pc = "get_or_create" /\ wk'[w].manual)
             => \A i \in DOMAIN slot_run' :
                   ~(/\ slot_run'[i].status = RunRunning
                     /\ clock - slot_run'[i].started_at > StaleMinutes)]_vars

\* C18: when an exception has escaped the run body the except clause leaves
\* the slot_run row failed, with the error text and the finish time stored.
RunFailurePersisted ==
    [][\A w \in Workers :
          (wk[w].pc = "failed" /\ wk'[w].pc # "failed")
          => /\ slot_run'[wk[w].run].status = RunFailed
             /\ slot_run'[wk[w].run].error = "exception"
             /\ slot_run'[wk[w].run].finished]_vars

\* C19: the date never has two daily_report rows, and a run whose lookup
\* found the date's row stores its digest by overwriting that row's
\* digest_md, digest_json and stats, adding no row.
DigestUpsertedInPlace ==
    /\ [](\A i, j \in DOMAIN daily_report :
             daily_report[i].report_date = daily_report[j].report_date
             => i = j)
    /\ [][\A w \in Workers :
             (/\ wk[w].pc = "send_report"
              /\ wk'[w].pc # "send_report"
              /\ wk[w].report # 0)
             => /\ Len(daily_report') = Len(daily_report)
                /\ \A i \in DOMAIN daily_report :
                      IF i = wk[w].report
                      THEN /\ daily_report'[i].report_date
                                 = daily_report[i].report_date
                           /\ daily_report'[i].digest_md = wk[w].digest_md
                           /\ daily_report'[i].digest_json = wk[w].analyses
                           /\ daily_report'[i].stats =
                                 [articles_analyzed |-> wk[w].total_articles,
                                  opportunities_found |->
                                      wk[w].total_opportunities]
                      ELSE daily_report'[i] = daily_report[i]]_vars

\* The date's row, stored for a day without an analysis, was overwritten by
\* a later run with the digest of one analysed article.
DigestRegenerated ==
    /\ Len(daily_report) = 1
    /\ daily_report[1].updated
    /\ daily_report[1].stats.articles_analyzed = 1
    /\ daily_report[1].digest_json = {1}
    /\ daily_report[1].digest_md = "ai digest"

SettingsFixedDuringRun ==
    [][settings' # settings
       => \A w \in Workers :
             /\ wk[w].pc = "should_push"
                => LET analysis == analysis_result[Head(wk[w].pending_items)][1]
                   IN should_push_opportunity(analysis, Today, wk[w].slot)'
                         = should_push_opportunity(analysis, Today, wk[w].slot)
             /\ wk[w].pc \in {"fetch", "save_articles"}
                => is_last_slot_of_day(wk[w].slot)'
                      = is_last_slot_of_day(wk[w].slot)]_vars

\* C23: no name ever has two active prompt_version rows, no step deletes a
\* row that is active, and a step that changes the prompt_version table is
\* no step of a run: it moves no worker and changes no other table.
OneActivePromptPerName ==
    /\ [](\A name \in PromptNames :
             Cardinality({i \in PromptIds(name) :
                             prompt_version[i][1].is_active}) <= 1)
    /\ [][/\ \A i \in DOMAIN prompt_version :
                (prompt_version[i] # <<>> /\ prompt_version[i][1].is_active)
                => prompt_version'[i] # <<>>
          /\ prompt_version' # prompt_version
             => /\ wk' = wk
                /\ slot_run' = slot_run
                /\ content_item' = content_item]_vars

\* A name has two versions, the older one active again after the newer one
\* was created, and a version of the name was deleted.
PromptReactivated ==
    \E i, j, k \in DOMAIN prompt_version :
       /\ i < j
       /\ prompt_version[k] = <<>>
       /\ prompt_version[i] # <<>> /\ prompt_version[j] # <<>>
       /\ prompt_version[i][1].name = prompt_version[j][1].name
       /\ prompt_version[i][1].is_active
       /\ ~prompt_version[j][1].is_active

\* C24: the document stored with every analysis_result row holds all the
\* mandatory fields.
VerdictFromValidResponse ==
    \A a \in Articles :
       analysis_result[a] # <<>>
       => required_fields \subseteq analysis_result[a][1].result_json

\* C25: for one item the provider is called at most three times, the first
\* time with the plain request, the second with the JSON-only instruction,
\* the third with the fill-missing-fields instruction, and no call follows a
\* response that holds all the mandatory fields.
AttemptsInOrder ==
    [][\A w \in Workers :
          (wk[w].pc = "analyze" /\ wk'[w].pc = "persist")
          => /\ wk'[w].calls <= 3
             /\ Len(wk'[w].requests) = wk'[w].calls
             /\ Len(wk'[w].attempts) = wk'[w].calls
             /\ wk'[w].requests =
                   SubSeq(<<"plain", "json_only", "fill_missing">>, 1,
                          wk'[w].calls)
             /\ \A i \in 1..(wk'[w].calls - 1) :
                   \/ wk'[w].attempts[i].kind = "raise"
                   \/ missing(wk'[w].attempts[i].doc) # {}]_vars

\* An item's first attempt raised, its second returned a document without
\* summary, and the third request was made.
ThreeRequestsMade ==
    \E w \in Workers :
       /\ wk[w].pc = "persist"
       /\ wk[w].requests = <<"plain", "json_only", "fill_missing">>
       /\ wk[w].attempts[1].kind = "raise"
       /\ wk[w].attempts[2].kind = "doc"
       /\ missing(wk[w].attempts[2].doc) # {}

\* C26: one ingestion pass makes at most 100 requests to the list endpoint.
PageCapRespected ==
    [][\A w \in Workers :
          (wk[w].pc = "fetch" /\ wk'[w].pc = "save_articles")
          => wk'[w].list_calls <= 100]_vars

ReconciliationFrame ==
    [][(\/ wk' = wk /\ slot_run' # slot_run
        \/ /\ triggers' # triggers
           /\ \A w \in Workers :
                 (wk[w].pc = "idle" /\ wk'[w].pc = "get_or_create")
                 => wk'[w].manual)
       => /\ DOMAIN slot_run' = DOMAIN slot_run
          /\ \A i \in DOMAIN slot_run :
                IF /\ slot_run[i].status = RunRunning
                   /\ clock - slot_run[i].started_at > 30
                THEN slot_run'[i] =
                        [slot |-> slot_run[i].slot,
                         window_start_at |-> slot_run[i].window_start_at,
                         window_end_at |-> slot_run[i].window_end_at,
                         status |-> RunFailed,
                         stats |-> slot_run[i].stats,
                         started_at |-> slot_run[i].started_at,
                         finished |-> TRUE,
                         error |-> "timeout"]
                ELSE slot_run'[i] = slot_run[i]]_vars

\* A run older than the timeout was set to failed by reconciliation while a
\* run younger than the timeout is running.
StaleFailedFreshKept ==
    \E i, j \in DOMAIN slot_run :
       /\ slot_run[i].status = RunFailed
       /\ slot_run[i].error = "timeout"
       /\ slot_run[i].finished
       /\ slot_run[j].status = RunRunning
       /\ clock - slot_run[j].started_at <= 30

\* C29: a scheduled execution whose lookup found no row, or found its row
\* not succeeded, goes on to the pipeline with its row running, whatever
\* other workers are doing.
ScheduledNeverBlocked ==
    [][\A w \in Workers :
          /\ (/\ ~wk[w].manual
              /\ wk[w].pc = "insert_slot_run"
              /\ wk'[w].pc # "insert_slot_run")
             => /\ wk'[w].pc = "fetch"
                /\ slot_run'[wk'[w].run].slot = wk[w].slot
                /\ slot_run'[wk'[w].run].status = RunRunning
          /\ (/\ ~wk[w].manual
              /\ wk[w].pc = "mark_running"
              /\ wk'[w].pc # "mark_running"
              /\ slot_run[wk[w].run].status # RunSuccess)
             => /\ wk'[w].pc = "fetch"
                /\ slot_run'[wk[w].run].status = RunRunning]_vars

\* C30: a run left running by a worker that died (it is running, it never
\* finished, and the worker that inserted it no longer executes it) leaves
\* the running status only when a reconciliation pass, more than 30 minutes
\* after its start, sets it to failed with the timed-out error.
CrashedRunStaysRunning ==
    [][\A i \in DOMAIN slot_run :
          (/\ slot_run[i].status = RunRunning
           /\ ~slot_run[i].finished
           /\ \A w \in Workers : wk[w].run = i => ~wk[w].is_new
           /\ slot_run'[i].status # RunRunning)
          => /\ slot_run'[i].status = RunFailed
             /\ slot_run'[i].error = "timeout"
             /\ clock - slot_run[i].started_at > StaleMinutes]_vars

\* C31: every pending item that has content is sent to the provider, with
\* the prompt of the PromptVersion the run holds or with the built-in prompt
\* when it holds none, and the AnalysisResult written for the item records
\* the id of that PromptVersion (none without one).
PromptUsedForEveryItem ==
    [][\A w \in Workers :
          /\ (wk[w].pc = "analyze" /\ wk'[w] # wk[w])
             => \/ /\ wk'[w].pc = "persist"
                   /\ wk'[w].calls >= 1
                \/ /\ wk'[w].pending_items = Tail(wk[w].pending_items)
                   /\ wk'[w].articles_failed = wk[w].articles_failed
          /\ (/\ wk[w].pc = "persist"
              /\ analysis_result' # analysis_result
              /\ wk'[w] # wk[w])
             => analysis_result'[Head(wk[w].pending_items)][1].prompt_version_id
                   = wk[w].prompt_version]_vars

\* C32: an item has at most one AnalysisResult, also when two overlapping
\* executions hold the same pending item: a row once committed is never
\* replaced by a second one, and no step changes its score, has_opportunity,
\* result document, run id or prompt version id. (The table is keyed by
\* content_item_id; the second insert is what uq_analysis_content_item
\* rejects.)
VerdictWrittenOnce ==
    [][\A a \in Articles :
          analysis_result[a] # <<>>
          => /\ analysis_result'[a] # <<>>
             /\ analysis_result'[a][1].score = analysis_result[a][1].score
             /\ analysis_result'[a][1].has_opportunity
                   = analysis_result[a][1].has_opportunity
             /\ analysis_result'[a][1].result_json
                   = analysis_result[a][1].result_json
             /\ analysis_result'[a][1].run_id = analysis_result[a][1].run_id
             /\ analysis_result'[a][1].prompt_version_id
                   = analysis_result[a][1].prompt_version_id]_vars

\* A second execution that held the same pending item reached the flush of
\* its own AnalysisResult after the first one's row, built from a document
\* without summary, was committed, and the flush was rejected.
SecondVerdictRejected ==
    \E w \in Workers, a \in Articles :
       /\ analysis_result[a] # <<>>
       /\ analysis_result[a][1].result_json # required_fields
       /\ content_item[a] = <<ItemDone>>
       /\ wk[w].pc = "failed"
       /\ wk[w].needs_rollback

\* The rows of the opportunity table that belong to an AnalysisResult, in
\* insertion order.
OpportunitiesOf(table, analysis_id) ==
    LET of_analysis(row) == row.analysis_id = analysis_id
    IN SelectSeq(table, of_analysis)

RetryOnceAfterLogin ==
    [][werss' # werss
       => LET r == werss'.calls
              sends == {i \in DOMAIN r : r[i].call = "request"}
          IN /\ Cardinality(sends) <= 2
             /\ \A i, j \in sends :
                   i < j => /\ r[i].status = "401"
                            /\ j = i + 2
                            /\ r[i + 1] = Call("login", <<>>, "ok")
                            /\ r[j].token = werss'.token
                            /\ r[j].token # r[i].token
                            /\ j = Len(r)
                            /\ r[j].status # "200" => werss'.raised
             /\ IF werss.token # <<>> /\ werss.expires_at[1] - clock <= 5
                THEN /\ r[1].call = "refresh"
                     /\ r[1].token = werss.token
                     /\ r[1].status = "raise"
                        => Len(r) >= 2 /\ r[2].call = "login"
                     /\ r[1].status = "ok"
                        => Len(r) >= 2 /\ r[2].call = "request"
                ELSE IF werss.token # <<>>
                THEN r[1] = Call("request", werss.token, r[1].status)
                ELSE r[1].call = "login"]_vars

\* A request refreshed its token without success, logged in, was answered
\* 401, logged in again and was answered 401 again: it raised.
SecondUnauthorizedRaised ==
    /\ Len(werss.calls) = 5
    /\ werss.calls[1].call = "refresh"
    /\ werss.calls[2].call = "login"
    /\ werss.calls[3].status = "401"
    /\ werss.calls[4].call = "login"
    /\ werss.calls[5].status = "401"
    /\ werss.raised

\* C35: in every committed state an item has an AnalysisResult exactly when
\* its analysis status is done.
VerdictIffDone ==
    \A a \in Articles :
       analysis_result[a] # <<>> <=> content_item[a] = <<ItemDone>>

\* C36: an item's analysis status changes only from pending to done or from
\* pending to failed, and only an item whose status is pending is sent to the
\* provider.
StatusLeavesOnlyPending ==
    [][/\ \A a \in Articles :
             (content_item[a] # <<>> /\ content_item'[a] # content_item[a])
             => /\ content_item[a] = <<ItemPending>>
                /\ content_item'[a] \in {<<ItemDone>>, <<ItemFailed>>}
       /\ \A w \in Workers :
             (wk[w].pc = "analyze" /\ wk'[w].pc = "persist" /\ wk'[w].calls >= 1)
             => content_item[Head(wk[w].pending_items)] = <<ItemPending>>]_vars

\* C37: an execution triggered for a slot whose run is succeeded returns the
\* skipped result at once: it makes no feed request and no provider call,
\* sends nothing and writes no table.
SucceededRunSkipped ==
    [][\A w \in Workers :
          (/\ wk[w].pc = "mark_running"
           /\ wk'[w] # wk[w]
           /\ slot_run[wk[w].run].status = RunSuccess)
          => /\ wk'[w].pc = "idle"
             /\ wk'[w].skipped
             /\ wk'[w].list_calls = 0 /\ wk'[w].detail_calls = <<>>
             /\ wk'[w].calls = 0 /\ wk'[w].daily_sends = 0
             /\ UNCHANGED <<slot_run, content_item, analysis_result,
                            opportunity, daily_report, notification_log,
                            settings, prompt_version>>]_vars

\* A second trigger of a succeeded run has returned the skipped result.
SecondTriggerSkipped ==
    \E w \in Workers, i \in DOMAIN slot_run :
       /\ wk[w].pc = "idle"
       /\ wk[w].skipped
       /\ slot_run[i].status = RunSuccess
       /\ triggers = 2

\* C38: an alert for an AnalysisResult is sent by the execution that
\* committed it, once. An execution comes to the gate and the send for an
\* item only through the step that commits the item's AnalysisResult, which
\* finds none; a committed AnalysisResult stays; and the send ends the
\* execution's handling of the item. So no behaviour holds two sends for one
\* AnalysisResult, whatever executions overlap or follow.
AlertSentOncePerVerdict ==
    [][\A w \in Workers, a \in Articles :
          LET at_gate(worker) ==
                 /\ worker.pc \in {"should_push", "push"}
                 /\ Head(worker.pending_items) = a
          IN /\ (~at_gate(wk[w]) /\ at_gate(wk'[w]))
                => /\ wk[w].pc = "persist"
                   /\ analysis_result[a] = <<>>
                   /\ analysis_result'[a] # <<>>
             /\ analysis_result[a] # <<>> => analysis_result'[a] # <<>>
             /\ (at_gate(wk[w]) /\ wk[w].pc = "push" /\ wk'[w] # wk[w])
                => ~at_gate(wk'[w])]_vars

\* The alert for an item was sent and logged by the execution that committed
\* its AnalysisResult, and an overlapping execution that classified the same
\* item had its own AnalysisResult rejected.
AlertSentOtherRejected ==
    \E w \in Workers, a \in Articles, i \in DOMAIN notification_log :
       /\ notification_log[i].push_type = "opportunity"
       /\ notification_log[i].subject = a
       /\ analysis_result[a] # <<>>
       /\ wk[w].pc = "failed"
       /\ wk[w].needs_rollback

\* C39: at most one manually requested execution is under way at a time.
OneManualRunAtATime ==
    \A w, v \in Workers :
       (/\ wk[w].manual /\ wk[w].pc # "idle"
        /\ wk[v].manual /\ wk[v].pc # "idle")
       => w = v

\* C40: with workers that do not crash and external calls that return or
\* raise, a run whose slot_run row is running eventually has it succeeded or
\* failed.
RunEventuallyTerminal ==
    \A i \in 1..Cardinality(TriggerSlots) :
       (IF i \in DOMAIN slot_run THEN slot_run[i].status = RunRunning
                                 ELSE FALSE)
          ~> (IF i \in DOMAIN slot_run
              THEN slot_run[i].status \in {RunSuccess, RunFailed}
              ELSE FALSE)

====
